---- MODULE Spec2Model ----
(***************************************************************************)
(* Gesture media control: the hand-pose classifiers of HandDetector, the   *)
(* cooldown/edge-triggered dispatcher of GestureHandler and the volume     *)
(* actuator, as a state machine.                                           *)
(*                                                                         *)
(* Conventions.                                                            *)
(*  - A snapshot (landmarks_list) is a sequence of <<id, x, y>>; Python's  *)
(*    landmarks_list[k] is LM(l, k) == l[k + 1].                           *)
(*  - A length returned by math.hypot is represented by its exact square   *)
(*    (an integer); "d < 60" is therefore "d < 60 * 60".                   *)
(*  - Time is counted in ticks of 0.1 s; time.time() is the variable clock.*)
(*  - Percentages and smoothed distances are fixed-point numbers in units  *)
(*    of 1 / Scale.                                                        *)
(***************************************************************************)
EXTENDS Integers, Sequences, FiniteSets, TLC

VARIABLES
    landmarks_list,             \* HandDetector.landmarks_list
    detector,                   \* GestureHandler.detector: "None", "ok", "unavailable"
    current_gesture,            \* GestureHandler.current_gesture
    last_gesture,               \* GestureHandler.last_gesture
    gesture_start_time,         \* GestureHandler.gesture_start_time
    last_triggered,             \* actions[g].last_triggered, g in the action table
    smooth_volume,              \* GestureHandler.smooth_volume (fixed point)
    last_volume_distance,       \* GestureHandler.last_volume_distance (fixed point)
    last_brightness_distance,   \* GestureHandler.last_brightness_distance, -1 = attribute absent
    volume_control_active,      \* GestureHandler.volume_control_active
    brightness_control_active,  \* GestureHandler.brightness_control_active
    brightness_controller,      \* TRUE iff a brightness controller was passed to __init__
    brightness_level,           \* last level passed to brightness_controller.set_brightness
    current_volume,             \* VolumeController.current_volume
    clock,                      \* time.time()
    result,                     \* what the last call of detect_and_handle_gesture returned
    invoked,                    \* the action whose callback the last operation ran, or "none"
    obs,                        \* what the last frame read before it wrote anything
    failed,                     \* the actions whose latest callback run raised
    scn,                        \* progress of the frames through the cooldown scenario
    op,                         \* the last operation
    fingersOut,                 \* what the last fingers_up() call returned
    fingersPrev,                \* what the fingers_up() call before it returned
    labelOut,                   \* what the last detect_gesture() call returned
    labelPrev,                  \* what the detect_gesture() call before it returned
    legacyOut,                  \* what the unpatched HandDetector.detect_gesture returned
    mapped,                     \* the last two <<distance, percent>> pairs the mapping produced
    last_commit,                \* clock reading of the handler's latest set_volume call, -1 = none
    commit_gap,                 \* time between the last frame's set_volume call and the one before
    volume_frames,              \* number of frames that ran _handle_volume_control
    volume_available,           \* VolumeController.volume_available
    volume_requested,           \* argument of the last direct set_volume call, "none" before it
    volume_before,              \* current_volume when that call began
    set_result,                 \* what that call returned: "True", "False", "none" before it
    running,                    \* GestureMediaControlApp.running: the frame loop goes on
    prev_op,                    \* the operation before the last frame
    prev_distance,              \* last_volume_distance when the last frame began
    prev_smooth,                \* smooth_volume when the last frame began
    prev_volume                 \* current_volume when the last frame began

vars == <<landmarks_list, detector, current_gesture, last_gesture, gesture_start_time,
          last_triggered, smooth_volume, last_volume_distance, last_brightness_distance,
          volume_control_active, brightness_control_active, brightness_controller,
          brightness_level, current_volume, clock, result, invoked, obs, failed, scn, op,
          fingersOut, fingersPrev, labelOut, labelPrev, legacyOut, mapped,
          last_commit, commit_gap, volume_frames,
          volume_available, volume_requested, volume_before, set_result, running,
          prev_op, prev_distance, prev_smooth, prev_volume>>

handlerVars == <<detector, current_gesture, last_gesture, gesture_start_time,
                 last_triggered, smooth_volume, last_volume_distance,
                 last_brightness_distance, volume_control_active,
                 brightness_control_active, brightness_controller, brightness_level,
                 current_volume, clock, result, invoked, obs, failed, scn>>

classifyVars == <<fingersOut, fingersPrev, labelOut, labelPrev, legacyOut>>

actuatorVars == <<volume_available, volume_requested, volume_before, set_result>>

beforeVars == <<prev_op, prev_distance, prev_smooth, prev_volume>>

auxVars == <<mapped, last_commit, commit_gap, volume_frames, actuatorVars, running,
             beforeVars>>

-----------------------------------------------------------------------------
(* Program constants *)

NumLandmarks == 21
OK_DISTANCE_THRESHOLD == 60
LegacyOkThreshold == 60
SpreadThreshold == 50
VOLUME_MIN_DISTANCE == 30
VOLUME_MAX_DISTANCE == 200
GESTURE_COOLDOWN == 10
\* performance.volume_update_interval, 0.05 s, in halves of a tick
VOLUME_UPDATE_INTERVAL == 1
InitialVolume == 50
SmoothNum == 3
SmoothDen == 10
JitterKeep == 7
JitterTake == 3
JitterDen == 10

tip_ids == <<4, 8, 12, 16, 20>>

ActionLabels == {"OK", "Peace", "Mute", "Unmute", "Previous", "Brightness"}

GestureLabels == {"No Hand", "Unknown", "OK", "Peace", "Volume Control",
                  "Mute", "Unmute", "Previous", "Brightness"}

-----------------------------------------------------------------------------
(* Bounds of the model *)

MaxExtra == 1
StartTime == 10
MaxTime == 22
MaxDrift == 1
MaxVolumeFrames == 2
MaxVolumeTime == 11
MaxBrightTime == 11
Scale == 100

-----------------------------------------------------------------------------
(* Helpers *)

LM(l, k) == l[k + 1]
X(p) == p[2]
Y(p) == p[3]

Max2(a, b) == IF a >= b THEN a ELSE b
Min2(a, b) == IF a <= b THEN a ELSE b

RECURSIVE SumSeq(_)
SumSeq(s) == IF s = <<>> THEN 0 ELSE Head(s) + SumSeq(Tail(s))

\* Python's s[k:] for a list s (k counted from 0)
From(s, k) == SubSeq(s, k + 1, Len(s))

-----------------------------------------------------------------------------
(* HandDetector *)

fingers_up_allDown(l) ==
    IF Len(l) < NumLandmarks THEN <<0, 0, 0, 0, 0>>
    ELSE LET thumb == IF X(LM(l, tip_ids[1])) > X(LM(l, tip_ids[1] - 1)) THEN 1 ELSE 0
             other == [id \in 1..4 |->
                          IF Y(LM(l, tip_ids[id + 1])) < Y(LM(l, tip_ids[id + 1] - 2))
                          THEN 1 ELSE 0]
         IN  <<thumb>> \o other

fingers_up_orEqual(l) ==
    IF Len(l) < NumLandmarks THEN <<>>
    ELSE LET thumb == IF X(LM(l, tip_ids[1])) >= X(LM(l, tip_ids[1] - 1)) THEN 1 ELSE 0
             other == [id \in 1..4 |->
                          IF Y(LM(l, tip_ids[id + 1])) <= Y(LM(l, tip_ids[id + 1] - 2))
                          THEN 1 ELSE 0]
         IN  <<thumb>> \o other

fingers_up(l) ==
    IF Len(l) < NumLandmarks THEN <<>>
    ELSE LET thumb == IF X(LM(l, tip_ids[1])) > X(LM(l, tip_ids[1] - 1)) THEN 1 ELSE 0
             other == [id \in 1..4 |->
                          IF Y(LM(l, tip_ids[id + 1])) < Y(LM(l, tip_ids[id + 1] - 2))
                          THEN 1 ELSE 0]
         IN  <<thumb>> \o other

find_distance_horizontal(l, p1, p2) ==
    IF Len(l) < Max2(p1, p2) + 1 THEN 0
    ELSE LET dx == X(LM(l, p2)) - X(LM(l, p1))
         IN  dx * dx

\* the squared length; 0 when either landmark is missing
find_distance(l, p1, p2) ==
    IF Len(l) < Max2(p1, p2) + 1 THEN 0
    ELSE LET dx == X(LM(l, p2)) - X(LM(l, p1))
             dy == Y(LM(l, p2)) - Y(LM(l, p1))
         IN  dx * dx + dy * dy

detect_mute_gesture_fist(l) ==
    IF l = <<>> \/ Len(l) < NumLandmarks THEN "Unknown"
    ELSE LET fingers == fingers_up(l)
         IN  IF fingers = <<>> THEN "Unknown"
             ELSE IF SumSeq(fingers) = 0 THEN "Fist"
             ELSE "Unknown"

detect_mute_gesture(l) ==
    IF l = <<>> \/ Len(l) < NumLandmarks THEN "Unknown"
    ELSE LET fingers == fingers_up(l)
         IN  IF fingers = <<>> THEN "Unknown"
             ELSE IF SumSeq(fingers) = 0 THEN "Mute"
             ELSE "Unknown"

detect_previous_gesture_joint1(l) ==
    IF l = <<>> \/ Len(l) < NumLandmarks THEN "Unknown"
    ELSE LET fingers == fingers_up(l)
             thumb_tip == LM(l, 4)
             thumb_base == LM(l, 1)
         IN  IF fingers = <<>> THEN "Unknown"
             ELSE IF Y(thumb_tip) > Y(thumb_base) /\ SumSeq(From(fingers, 1)) >= 3
                  THEN "Previous"
             ELSE "Unknown"

detect_previous_gesture(l) ==
    IF l = <<>> \/ Len(l) < NumLandmarks THEN "Unknown"
    ELSE LET fingers == fingers_up(l)
             thumb_tip == LM(l, 4)
             thumb_base == LM(l, 2)
         IN  IF fingers = <<>> THEN "Unknown"
             ELSE IF Y(thumb_tip) > Y(thumb_base) /\ SumSeq(From(fingers, 1)) >= 3
                  THEN "Previous"
             ELSE "Unknown"

detect_brightness_gesture_never(l) == "Unknown"

detect_brightness_gesture(l) ==
    IF l = <<>> \/ Len(l) < NumLandmarks THEN "Unknown"
    ELSE LET fingers == fingers_up(l)
         IN  IF fingers = <<>> THEN "Unknown"
             ELSE IF SumSeq(fingers) = 5 THEN "Brightness"
             ELSE "Unknown"

\* find_distance cannot raise once the snapshot has at least 21 landmarks, so the
\* except branch (lines 312-315) is never taken.
detect_unmute_gesture(l) ==
    IF l = <<>> \/ Len(l) < NumLandmarks THEN "Unknown"
    ELSE LET fingers == fingers_up(l)
             dist_im == find_distance(l, 8, 12)
             dist_mr == find_distance(l, 12, 16)
         IN  IF fingers = <<>> THEN "Unknown"
             ELSE IF SumSeq(fingers) >= 4
                     /\ dist_im > SpreadThreshold * SpreadThreshold
                     /\ dist_mr > SpreadThreshold * SpreadThreshold
                  THEN "Unmute"
             ELSE "Unknown"

enhanced_detect_gesture_swapped(l) ==
    IF l = <<>> THEN "No Hand"
    ELSE LET fingers == fingers_up(l)
         IN
         IF fingers = <<>> THEN "Unknown"
         ELSE IF fingers[2] = 1 /\ fingers[1] = 1 /\ SumSeq(From(fingers, 2)) = 0
              THEN "Volume Control"
         ELSE IF fingers[2] = 1 /\ fingers[1] = 0 /\ SumSeq(From(fingers, 2)) = 0
                 /\ find_distance(l, 4, 8) < OK_DISTANCE_THRESHOLD * OK_DISTANCE_THRESHOLD
              THEN "OK"
         ELSE IF fingers[2] = 1 /\ fingers[3] = 1 /\ SumSeq(From(fingers, 3)) = 0
                 /\ fingers[1] = 0
              THEN "Peace"
         ELSE IF detect_mute_gesture(l) # "Unknown" THEN detect_mute_gesture(l)
         ELSE IF detect_brightness_gesture(l) # "Unknown" THEN detect_brightness_gesture(l)
         ELSE IF detect_previous_gesture(l) # "Unknown" THEN detect_previous_gesture(l)
         ELSE IF detect_unmute_gesture(l) # "Unknown" THEN detect_unmute_gesture(l)
         ELSE "Unknown"

enhanced_detect_gesture_noHand(l) ==
    IF l = <<>> THEN "No Hand"
    ELSE LET fingers == fingers_up(l)
         IN
         IF fingers = <<>> THEN "No Hand"
         ELSE IF fingers[2] = 1 /\ fingers[1] = 1 /\ SumSeq(From(fingers, 2)) = 0
              THEN "Volume Control"
         ELSE IF fingers[2] = 1 /\ fingers[1] = 0 /\ SumSeq(From(fingers, 2)) = 0
                 /\ find_distance(l, 4, 8) < OK_DISTANCE_THRESHOLD * OK_DISTANCE_THRESHOLD
              THEN "OK"
         ELSE IF fingers[2] = 1 /\ fingers[3] = 1 /\ SumSeq(From(fingers, 3)) = 0
                 /\ fingers[1] = 0
              THEN "Peace"
         ELSE IF detect_mute_gesture(l) # "Unknown" THEN detect_mute_gesture(l)
         ELSE IF detect_previous_gesture(l) # "Unknown" THEN detect_previous_gesture(l)
         ELSE IF detect_brightness_gesture(l) # "Unknown" THEN detect_brightness_gesture(l)
         ELSE IF detect_unmute_gesture(l) # "Unknown" THEN detect_unmute_gesture(l)
         ELSE "Unknown"

\* HandDetector.detect_gesture as replaced at import of services/gesture_handler.py
enhanced_detect_gesture(l) ==
    IF l = <<>> THEN "No Hand"
    ELSE LET fingers == fingers_up(l)
         IN
         IF fingers = <<>> THEN "Unknown"
         ELSE IF fingers[2] = 1 /\ fingers[1] = 1 /\ SumSeq(From(fingers, 2)) = 0
              THEN "Volume Control"
         ELSE IF fingers[2] = 1 /\ fingers[1] = 0 /\ SumSeq(From(fingers, 2)) = 0
                 /\ find_distance(l, 4, 8) < OK_DISTANCE_THRESHOLD * OK_DISTANCE_THRESHOLD
              THEN "OK"
         ELSE IF fingers[2] = 1 /\ fingers[3] = 1 /\ SumSeq(From(fingers, 3)) = 0
                 /\ fingers[1] = 0
              THEN "Peace"
         ELSE IF detect_mute_gesture(l) # "Unknown" THEN detect_mute_gesture(l)
         ELSE IF detect_previous_gesture(l) # "Unknown" THEN detect_previous_gesture(l)
         ELSE IF detect_brightness_gesture(l) # "Unknown" THEN detect_brightness_gesture(l)
         ELSE IF detect_unmute_gesture(l) # "Unknown" THEN detect_unmute_gesture(l)
         ELSE "Unknown"

\* HandDetector.detect_gesture as the class defines it (no Unmute rule)
detect_gesture(l) ==
    IF l = <<>> THEN "No Hand"
    ELSE LET fingers == fingers_up(l)
         IN
         IF fingers = <<>> THEN "Unknown"
         ELSE IF fingers[2] = 1 /\ fingers[1] = 1 /\ SumSeq(From(fingers, 2)) = 0
              THEN "Volume Control"
         ELSE IF fingers[2] = 1 /\ fingers[1] = 0 /\ SumSeq(From(fingers, 2)) = 0
                 /\ find_distance(l, 4, 8) < LegacyOkThreshold * LegacyOkThreshold
              THEN "OK"
         ELSE IF fingers[2] = 1 /\ fingers[3] = 1 /\ SumSeq(From(fingers, 3)) = 0
                 /\ fingers[1] = 0
              THEN "Peace"
         ELSE IF detect_mute_gesture(l) # "Unknown" THEN detect_mute_gesture(l)
         ELSE IF detect_previous_gesture(l) # "Unknown" THEN detect_previous_gesture(l)
         ELSE IF detect_brightness_gesture(l) # "Unknown" THEN detect_brightness_gesture(l)
         ELSE "Unknown"

-----------------------------------------------------------------------------
(* Snapshots the landmark provider can deliver *)

BasePt == <<40, 40>>
Coord == {0, 40, 100}
XCoord == {40, 100}
Points == {<<x, y>> : x \in XCoord, y \in Coord}

\* a 21-landmark hand: the four tips 4, 8, 12, 16 and the height of tip 20 vary,
\* every other landmark sits at BasePt
Hand(p4, p8, p12, p16, y20) ==
    [i \in 1..NumLandmarks |->
        LET id == i - 1
            p  == CASE id = 4  -> p4
                   [] id = 8  -> p8
                   [] id = 12 -> p12
                   [] id = 16 -> p16
                   [] id = 20 -> <<BasePt[1], y20>>
                   [] OTHER   -> BasePt
        IN  <<id, p[1], p[2]>>]

Hands21 == {Hand(p4, p8, p12, p16, y20) :
               p4 \in Points, p8 \in Points, p12 \in Points, p16 \in Points,
               y20 \in Coord}

FewHands == {Hand(p4, p8, <<40, y>>, <<40, y>>, y) :
               p4 \in {<<100, 0>>, <<0, 100>>}, p8 \in {<<40, 0>>, <<40, 100>>},
               y \in {0, 100}}

ShortLens == {0, 1, 9, 20}

Truncated(h, n) == SubSeq(h, 1, n)
Extended(h, k) == h \o [i \in 1..k |-> <<NumLandmarks - 1 + i, BasePt[1], BasePt[2]>>]

OddSnapshots == {Truncated(h, n) : h \in FewHands, n \in ShortLens}
                \cup {Extended(h, k) : h \in FewHands, k \in 1..MaxExtra}

\* the hand h with landmark id moved to p
WithJoint(h, id, p) == [h EXCEPT ![id + 1] = <<id, p[1], p[2]>>]

\* hands whose thumb joint 3 and index joints 6 and 7 leave BasePt
JointHands == {WithJoint(WithJoint(WithJoint(h, 3, <<x3, 40>>), 6, <<40, y6>>),
                         7, <<40, y7>>) :
                  h \in FewHands, x3 \in {0, 100}, y6 \in {0, 100}, y7 \in {0, 100}}

\* open hands whose thumb joints 1 and 2 leave BasePt, the thumb tip between them
PalmHands == {Hand(<<x4, 40>>, <<40, 0>>, <<40, 0>>, <<40, 0>>, y20) :
                 x4 \in XCoord, y20 \in {0, 100}}

ThumbBaseHands == {WithJoint(WithJoint(h, 1, <<40, y1>>), 2, <<40, y2>>) :
                      h \in PalmHands, y1 \in {0, 100}, y2 \in {0, 100}}

ClassifySnapshots == Hands21 \cup OddSnapshots \cup JointHands \cup ThumbBaseHands

\* the poses the frame loop is driven with
NoHandPose  == <<>>
UnknownPose == Hand(<<100, 0>>, <<40, 100>>, <<40, 100>>, <<40, 100>>, 100)
OkPose      == Hand(<<40, 0>>, <<40, 0>>, <<40, 100>>, <<40, 100>>, 100)
PeacePose   == Hand(<<40, 0>>, <<40, 0>>, <<100, 0>>, <<40, 100>>, 100)
VolumePose  == Hand(<<155, 0>>, <<40, 0>>, <<40, 100>>, <<40, 100>>, 100)
\* thumb and index 200 px apart: the upper end of the volume range
VolumeWidePose == Hand(<<240, 0>>, <<40, 0>>, <<40, 100>>, <<40, 100>>, 100)

FramePoses == {NoHandPose, UnknownPose, OkPose, VolumePose}

\* snapshots with a wrong landmark count: the OK hand cut to 20 landmarks, to its
\* wrist alone, and followed by extra landmarks
ShortPose == Truncated(OkPose, NumLandmarks - 1)
WristPose == Truncated(OkPose, 1)
LongPoses == {Extended(OkPose, k) : k \in 1..MaxExtra}

OddPoses == {NoHandPose, ShortPose, WristPose} \cup LongPoses

\* thumb tip and index tip on the same pixel, both fingers up: distance 0
PinchPose == Hand(<<100, 0>>, <<100, 0>>, <<40, 100>>, <<40, 100>>, 100)
\* a closed fist
MutePose == Hand(<<40, 100>>, <<40, 100>>, <<40, 100>>, <<40, 100>>, 100)

VolumePoses == {NoHandPose, UnknownPose, VolumeWidePose, PinchPose, MutePose}

\* all five fingers up, the thumb tip above its base, thumb and index 60 px apart
BrightnessPose == Hand(<<100, 0>>, <<40, 0>>, <<40, 0>>, <<40, 0>>, 0)

BrightPoses == {NoHandPose, UnknownPose, OkPose, VolumePose, BrightnessPose}

AllPoses == FramePoses \cup {PeacePose} \cup OddPoses \cup VolumePoses \cup BrightPoses

-----------------------------------------------------------------------------
(* Fixed-point arithmetic *)

RECURSIVE SqrtIter(_, _, _)
SqrtIter(n, lo, hi) ==
    IF lo >= hi THEN lo
    ELSE LET mid == (lo + hi + 1) \div 2
         IN  IF mid * mid <= n THEN SqrtIter(n, mid, hi) ELSE SqrtIter(n, lo, mid - 1)

ISqrt(n) == SqrtIter(n, 0, Min2(n, 46340))

\* the length whose square is sq, in units of 1 / Scale
Length(sq) == ISqrt(sq * Scale * Scale)

Interp_extrapolating(d) ==
    LET lo == VOLUME_MIN_DISTANCE * Scale
    IN  ((d - lo) * 100) \div (VOLUME_MAX_DISTANCE - VOLUME_MIN_DISTANCE)

\* np.interp(d, [min_dist, max_dist], [0, 100]) followed by max(0, min(100, .))
Interp(d) ==
    LET lo == VOLUME_MIN_DISTANCE * Scale
        hi == VOLUME_MAX_DISTANCE * Scale
        v  == IF d <= lo THEN 0
              ELSE IF d >= hi THEN 100 * Scale
              ELSE ((d - lo) * 100) \div (VOLUME_MAX_DISTANCE - VOLUME_MIN_DISTANCE)
    IN  Max2(0, Min2(100 * Scale, v))

\* int(x) for a non-negative fixed-point x
IntOf(x) == x \div Scale

-----------------------------------------------------------------------------
(* VolumeController *)

set_volume_unclamped(volume_percent) == volume_percent

\* the level current_volume holds after set_volume(volume_percent)
set_volume(volume_percent) == Max2(0, Min2(100, volume_percent))

\* what the platform helper (_set_volume_windows, _set_volume_macos,
\* _set_volume_linux) does: "applied" it returns True, "refused" it catches its own
\* error and returns False, "raised" an exception leaves it
Outcomes == {"applied", "refused", "raised"}

\* set_volume(volume_percent) from the level old_volume:
\* <<new current_volume, value returned>>
set_volume_call(volume_percent, old_volume, available, outcome) ==
    LET level == set_volume(volume_percent)
    IN  IF ~available THEN <<level, "True">>
        ELSE IF outcome = "applied" THEN <<level, "True">>
        ELSE IF outcome = "refused" THEN <<level, "False">>
        ELSE <<old_volume, "False">>

-----------------------------------------------------------------------------
(* GestureAction *)

\* self.detector.detect_gesture() (line 85), tabulated over the poses
GestureOf == [p \in AllPoses |-> enhanced_detect_gesture(p)]

can_trigger_strict(now, last, cooldown) == now - last > cooldown

can_trigger_anyTime(now, last, cooldown) == now - last >= 0

can_trigger(now, last, cooldown) == now - last >= cooldown

-----------------------------------------------------------------------------
(* GestureHandler *)

NoResult == [gesture |-> "none", action_taken |-> FALSE, discrete_action |-> "none",
             gesture_duration |-> -1]

\* detect_and_handle_gesture was left by an exception
Raised == [NoResult EXCEPT !.gesture = "raised"]

NoObs == [prev_gesture |-> "none", prev_triggered |-> [g \in ActionLabels |-> 0],
          now |-> 0, raised |-> FALSE]

ScnOff == [stage |-> 0, t0 |-> 0]

\* The scenario: the label rises Unknown -> OK at t0 with OK never fired, is still OK
\* at t0 + 0.5 s, Unknown at t0 + 0.6 s, OK at t0 + 0.8 s, Unknown again, OK at
\* t0 + 1.2 s; stage counts the scenario's frames seen so far, 0 when the frames
\* are not following it.
ScenarioStep(gesture, now) ==
    LET rel == now - scn.t0
    IN  IF scn.stage = 1 /\ gesture = "OK" /\ rel = 5 THEN [scn EXCEPT !.stage = 2]
        ELSE IF scn.stage = 2 /\ gesture = "Unknown" /\ rel = 6 THEN [scn EXCEPT !.stage = 3]
        ELSE IF scn.stage = 3 /\ gesture = "OK" /\ rel = 8 THEN [scn EXCEPT !.stage = 4]
        ELSE IF scn.stage = 4 /\ gesture = "Unknown" /\ rel \in 9..11
             THEN [scn EXCEPT !.stage = 5]
        ELSE IF scn.stage = 5 /\ gesture = "OK" /\ rel = 12 THEN [scn EXCEPT !.stage = 6]
        ELSE IF gesture = "OK" /\ last_gesture = "Unknown" /\ last_triggered["OK"] = 0
             THEN [stage |-> 1, t0 |-> now]
        ELSE ScnOff

\* GestureHandler(volume_controller, brightness_controller); controller tells
\* whether a brightness controller is passed
InitHandlerWith(controller) ==
    /\ detector = "None"
    /\ current_gesture = "No Hand"
    /\ last_gesture = "No Hand"
    /\ gesture_start_time = 0
    /\ current_volume = set_volume(InitialVolume)
    /\ smooth_volume = current_volume * Scale
    /\ last_triggered = [g \in ActionLabels |-> 0]
    /\ volume_control_active = FALSE
    /\ brightness_control_active = FALSE
    /\ last_volume_distance = 0
    /\ last_brightness_distance = -1
    /\ brightness_controller = controller
    /\ brightness_level = -1
    /\ clock = StartTime
    /\ result = NoResult
    /\ invoked = "none"
    /\ obs = NoObs
    /\ failed = {}
    /\ scn = ScnOff

\* the handler as app.py constructs it (line 72): no brightness controller
InitHandler == InitHandlerWith(FALSE)

\* fingersOut before any call of fingers_up
NotCalled == <<-1>>

InitAux ==
    /\ mapped = <<>>
    /\ last_commit = -1
    /\ commit_gap = -1
    /\ volume_frames = 0
    /\ volume_requested = "none"
    /\ volume_before = -1
    /\ set_result = "none"
    /\ running = TRUE
    /\ prev_op = "none"
    /\ prev_distance = -1
    /\ prev_smooth = -1
    /\ prev_volume = -1

InitClassifyOut ==
    /\ fingersOut = NotCalled
    /\ fingersPrev = NotCalled
    /\ labelOut = "none"
    /\ labelPrev = "none"
    /\ legacyOut = "none"

Init ==
    /\ InitHandler
    /\ InitClassifyOut
    /\ InitAux
    /\ volume_available = TRUE
    /\ landmarks_list = <<>>
    /\ op = "init"

set_detector(avail) ==
    /\ detector = "None"
    /\ detector' = IF avail THEN "ok" ELSE "unavailable"
    /\ op' = "set_detector"
    /\ invoked' = "none"
    /\ result' = NoResult
    /\ obs' = NoObs
    /\ UNCHANGED <<landmarks_list, current_gesture, last_gesture, gesture_start_time,
                   last_triggered, smooth_volume, last_volume_distance,
                   last_brightness_distance, volume_control_active,
                   brightness_control_active, brightness_controller, brightness_level,
                   current_volume, clock, failed, scn>>
    /\ UNCHANGED classifyVars
    /\ UNCHANGED auxVars

handle_volume_control_overshoot(l) ==
    LET length == Length(find_distance(l, 4, 8))
        dist   == IF last_volume_distance = 0 THEN length
                  ELSE (last_volume_distance * JitterKeep + length * JitterTake) \div JitterDen
        volume == Interp(dist)
        smooth == (volume * (SmoothDen + SmoothNum) - smooth_volume * SmoothNum)
                  \div SmoothDen
    IN  <<dist, smooth, set_volume(IntOf(smooth))>>

\* _handle_volume_control: the new <<last_volume_distance, smooth_volume, current_volume>>
handle_volume_control(l) ==
    LET length == Length(find_distance(l, 4, 8))
        dist   == IF last_volume_distance = 0 THEN length
                  ELSE (last_volume_distance * JitterKeep + length * JitterTake) \div JitterDen
        volume == Interp(dist)
        smooth == (smooth_volume * (SmoothDen - SmoothNum) + volume * SmoothNum)
                  \div SmoothDen
    IN  <<dist, smooth, set_volume(IntOf(smooth))>>

\* _handle_brightness_control: the new <<last_brightness_distance, brightness_level>>
handle_brightness_control(l) ==
    LET length == Length(find_distance(l, 4, 8))
        dist   == IF last_brightness_distance = -1 THEN length
                  ELSE (last_brightness_distance * JitterKeep + length * JitterTake) \div JitterDen
    IN  <<dist, IntOf(Interp(dist))>>

VolumeRuns_anyHand(gesture, l) == l # <<>>

\* lines 92 and 123: _handle_volume_control is called and gets past its guard
VolumeRuns(gesture, l) == gesture = "Volume Control" /\ l # <<>>

EdgeAlways(gesture) == gesture \in ActionLabels

Edge_retrying(gesture) ==
    /\ gesture \in ActionLabels
    /\ \/ gesture # last_gesture
       \/ clock - last_triggered[gesture] >= GESTURE_COOLDOWN

\* line 104: the edge gate
Edge(gesture) == gesture \in ActionLabels /\ gesture # last_gesture

callback_muting(gesture, volume) ==
    IF gesture \in {"Mute", "Unmute"} THEN 0 ELSE volume

\* the callbacks of the actions table, by their effect on the actuator's stored
\* level: the media callbacks print; _action_mute_toggle and _action_unmute_toggle
\* call volume_controller.toggle_mute, which VolumeController does not define, and
\* catch the AttributeError themselves; _action_brightness_control passes
callback(gesture, volume) == volume

\* GestureAction.trigger for the action of `gesture`, its clock readings being
\* now (can_trigger, line 26) and stamp (line 31): <<callback ran, returned True,
\* new last_triggered>>
trigger_stampAfter(gesture, now, stamp, raises) ==
    IF can_trigger(now, last_triggered[gesture], GESTURE_COOLDOWN)
    THEN <<TRUE, ~raises,
           IF raises THEN last_triggered
           ELSE [last_triggered EXCEPT ![gesture] = stamp]>>
    ELSE <<FALSE, FALSE, last_triggered>>

trigger_stampAll(gesture, now, stamp, raises) ==
    IF can_trigger(now, last_triggered[gesture], GESTURE_COOLDOWN)
    THEN <<TRUE, ~raises, [g \in ActionLabels |-> stamp]>>
    ELSE <<FALSE, FALSE, last_triggered>>

trigger_noStamp(gesture, now, stamp, raises) ==
    IF can_trigger(now, last_triggered[gesture], GESTURE_COOLDOWN)
    THEN <<TRUE, ~raises, last_triggered>>
    ELSE <<FALSE, FALSE, last_triggered>>

trigger(gesture, now, stamp, raises) ==
    IF can_trigger(now, last_triggered[gesture], GESTURE_COOLDOWN)
    THEN <<TRUE, ~raises, [last_triggered EXCEPT ![gesture] = stamp]>>
    ELSE <<FALSE, FALSE, last_triggered>>

\* detect_and_handle_gesture on the snapshot l. now, stamp, start and finish are
\* its clock readings (lines 26, 31, 111, 118); raises tells whether the callback,
\* if it runs, raises; bfails tells whether brightness_controller.set_brightness,
\* if it is called, raises: nothing catches that exception (line 175), the call
\* ends without a return value after lines 86 and 168-171 have run.
detect_and_handle_gesture(l, stamp, start, finish, raises, bfails) ==
    IF detector # "ok"
    THEN /\ result' = [gesture |-> "No Hand", action_taken |-> FALSE,
                       discrete_action |-> "none", gesture_duration |-> -1]
         /\ invoked' = "none"
         /\ obs' = [prev_gesture |-> last_gesture, prev_triggered |-> last_triggered,
                    now |-> clock, raised |-> FALSE]
         /\ UNCHANGED <<detector, current_gesture, last_gesture, gesture_start_time,
                        last_triggered, smooth_volume, last_volume_distance,
                        last_brightness_distance, volume_control_active,
                        brightness_control_active, brightness_controller,
                        brightness_level, current_volume, clock, failed>>
         /\ scn' = ScnOff
    ELSE IF GestureOf[l] = "Brightness" /\ brightness_controller /\ l # <<>> /\ bfails
    THEN /\ current_gesture' = "Brightness"
         /\ last_brightness_distance' = handle_brightness_control(l)[1]
         /\ result' = Raised
         /\ invoked' = "none"
         /\ obs' = [prev_gesture |-> last_gesture, prev_triggered |-> last_triggered,
                    now |-> clock, raised |-> FALSE]
         /\ UNCHANGED <<detector, last_gesture, gesture_start_time, last_triggered,
                        smooth_volume, last_volume_distance, volume_control_active,
                        brightness_control_active, brightness_controller,
                        brightness_level, current_volume, clock, failed>>
         /\ scn' = ScnOff
    ELSE
    LET gesture == GestureOf[l]
        now     == clock
        isVol   == gesture = "Volume Control"
        isBri   == gesture = "Brightness" /\ brightness_controller
        volRuns == VolumeRuns(gesture, l)
        briRuns == isBri /\ l # <<>>
        vol     == handle_volume_control(l)
        bri     == handle_brightness_control(l)
        edge    == Edge(gesture)
        trig    == IF edge THEN trigger(gesture, now, stamp, raises)
                   ELSE <<FALSE, FALSE, last_triggered>>
        changed == gesture # last_gesture
    IN  /\ current_gesture' = gesture
        /\ last_volume_distance' = IF volRuns THEN vol[1] ELSE last_volume_distance
        /\ smooth_volume' = IF volRuns THEN vol[2] ELSE smooth_volume
        /\ current_volume' =
              LET level == IF volRuns THEN vol[3] ELSE current_volume
              IN  IF trig[1] THEN callback(gesture, level) ELSE level
        /\ last_brightness_distance' = IF briRuns THEN bri[1] ELSE last_brightness_distance
        /\ brightness_level' = IF briRuns THEN bri[2] ELSE brightness_level
        /\ volume_control_active' =
              IF isVol THEN (IF volRuns THEN TRUE ELSE volume_control_active)
              ELSE IF isBri THEN volume_control_active
              ELSE FALSE
        /\ brightness_control_active' =
              IF isVol THEN brightness_control_active
              ELSE IF isBri THEN (IF briRuns THEN TRUE ELSE brightness_control_active)
              ELSE FALSE
        /\ last_triggered' = trig[3]
        /\ invoked' = IF trig[1] THEN gesture ELSE "none"
        /\ gesture_start_time' = IF changed THEN start ELSE gesture_start_time
        /\ last_gesture' = IF changed THEN gesture ELSE last_gesture
        /\ clock' = finish
        /\ result' = [gesture |-> gesture,
                      action_taken |-> (volRuns \/ briRuns \/ trig[2]),
                      discrete_action |-> IF trig[2] THEN gesture ELSE "none",
                      gesture_duration |-> finish - gesture_start_time']
        /\ obs' = [prev_gesture |-> last_gesture, prev_triggered |-> last_triggered,
                   now |-> now, raised |-> (trig[1] /\ raises)]
        /\ failed' = IF trig[1]
                      THEN (IF raises THEN failed \cup {gesture} ELSE failed \ {gesture})
                      ELSE failed
        /\ scn' = ScenarioStep(gesture, now)
        /\ UNCHANGED <<detector, brightness_controller>>

\* GestureMediaControlApp._process_frame: find_position replaces the snapshot, then
\* the handler runs on it
ProcessFrame(snap, stamp, start, finish, raises, bfails) ==
    /\ landmarks_list' = snap
    /\ detect_and_handle_gesture(snap, stamp, start, finish, raises, bfails)
    /\ op' = "frame"
    /\ UNCHANGED classifyVars

reset_state_clearing ==
    /\ current_gesture' = "No Hand"
    /\ last_gesture' = "No Hand"
    /\ gesture_start_time' = clock
    /\ volume_control_active' = FALSE
    /\ brightness_control_active' = FALSE
    /\ smooth_volume' = current_volume * Scale
    /\ last_triggered' = [g \in ActionLabels |-> 0]
    /\ invoked' = "none"
    /\ op' = "reset"
    /\ result' = NoResult
    /\ obs' = [NoObs EXCEPT !.prev_triggered = last_triggered, !.now = clock]
    /\ scn' = ScnOff
    /\ UNCHANGED failed
    /\ UNCHANGED <<landmarks_list, detector, last_volume_distance,
                   last_brightness_distance, brightness_controller, brightness_level,
                   current_volume, clock>>
    /\ UNCHANGED classifyVars
    /\ UNCHANGED auxVars

reset_state_reseeding ==
    /\ current_gesture' = "No Hand"
    /\ last_gesture' = "No Hand"
    /\ gesture_start_time' = clock
    /\ volume_control_active' = FALSE
    /\ brightness_control_active' = FALSE
    /\ smooth_volume' = current_volume * Scale
    /\ last_volume_distance' = 0
    /\ invoked' = "none"
    /\ op' = "reset"
    /\ result' = NoResult
    /\ obs' = [NoObs EXCEPT !.prev_triggered = last_triggered, !.now = clock]
    /\ scn' = ScnOff
    /\ UNCHANGED failed
    /\ UNCHANGED <<landmarks_list, detector, last_triggered,
                   last_brightness_distance, brightness_controller, brightness_level,
                   current_volume, clock>>
    /\ UNCHANGED classifyVars
    /\ UNCHANGED auxVars

\* GestureHandler.reset_state (key 'r')
reset_state ==
    /\ current_gesture' = "No Hand"
    /\ last_gesture' = "No Hand"
    /\ gesture_start_time' = clock
    /\ volume_control_active' = FALSE
    /\ brightness_control_active' = FALSE
    /\ smooth_volume' = current_volume * Scale
    /\ invoked' = "none"
    /\ op' = "reset"
    /\ result' = NoResult
    /\ obs' = [NoObs EXCEPT !.prev_triggered = last_triggered, !.now = clock]
    /\ scn' = ScnOff
    /\ UNCHANGED failed
    /\ UNCHANGED <<landmarks_list, detector, last_triggered, last_volume_distance,
                   last_brightness_distance, brightness_controller, brightness_level,
                   current_volume, clock>>
    /\ UNCHANGED classifyVars
    /\ UNCHANGED auxVars

\* time passes between two operations
Tick ==
    /\ clock < MaxTime
    /\ clock' = clock + 1
    /\ op' = "tick"
    /\ invoked' = "none"
    /\ result' = NoResult
    /\ obs' = NoObs
    /\ UNCHANGED <<failed, scn>>
    /\ UNCHANGED <<landmarks_list, detector, current_gesture, last_gesture,
                   gesture_start_time, last_triggered, smooth_volume,
                   last_volume_distance, last_brightness_distance,
                   volume_control_active, brightness_control_active,
                   brightness_controller, brightness_level, current_volume>>
    /\ UNCHANGED classifyVars
    /\ UNCHANGED auxVars

SetDetector == \E avail \in BOOLEAN : set_detector(avail)

\* the clock readings of one frame: it takes at most MaxDrift ticks
Readings == {r \in (0..MaxDrift) \X (0..MaxDrift) \X (0..MaxDrift) :
                r[1] <= r[2] /\ r[2] <= r[3]}

FrameOn(poses) ==
    \E snap \in poses : \E r \in Readings,
       raises \in (IF GestureOf[snap] \in ActionLabels THEN BOOLEAN ELSE {FALSE}),
       bfails \in (IF brightness_controller THEN BOOLEAN ELSE {FALSE}) :
        /\ clock + r[3] <= MaxTime
        /\ ProcessFrame(snap, clock + r[1], clock + r[2], clock + r[3], raises, bfails)

Frame == FrameOn(FramePoses) /\ UNCHANGED auxVars

Reset == reset_state

Next == SetDetector \/ Frame \/ Reset \/ Tick

Spec == Init /\ [][Next]_vars

\* the frame loop fed with snapshots of a wrong landmark count
FrameOdd == FrameOn(OddPoses) /\ UNCHANGED auxVars

NextOdd == SetDetector \/ FrameOdd \/ Reset \/ Tick

SpecOdd == Init /\ [][NextOdd]_vars

\* the frame loop fed with volume poses; the frame's set_volume call is made
\* after the clock reading obs.now
FrameVolume ==
    /\ FrameOn(VolumePoses)
    /\ LET committed == result'.gesture = "Volume Control" /\ result'.action_taken
       IN  /\ last_commit' = IF committed THEN obs'.now ELSE last_commit
           /\ commit_gap' = IF committed /\ last_commit # -1 THEN obs'.now - last_commit
                             ELSE -1
           /\ volume_frames' = IF committed THEN volume_frames + 1 ELSE volume_frames
    /\ volume_frames' <= MaxVolumeFrames
    /\ clock' <= MaxVolumeTime
    /\ prev_op' = op
    /\ prev_distance' = last_volume_distance
    /\ prev_smooth' = smooth_volume
    /\ prev_volume' = current_volume
    /\ UNCHANGED <<mapped, actuatorVars, running>>

TickVolume == clock < MaxVolumeTime /\ Tick

NextVolume == SetDetector \/ FrameVolume \/ Reset \/ TickVolume

SpecVolume == Init /\ [][NextVolume]_vars

\* the handler constructed with or without a brightness controller
InitBright ==
    /\ \E controller \in BOOLEAN : InitHandlerWith(controller)
    /\ InitClassifyOut
    /\ InitAux
    /\ volume_available = TRUE
    /\ landmarks_list = <<>>
    /\ op = "init"

\* the frame loop of GestureMediaControlApp.run: an exception that leaves
\* _process_frame ends the loop (lines 166-171)
FrameBright ==
    /\ running
    /\ FrameOn(BrightPoses)
    /\ running' = (result'.gesture # "raised")
    /\ clock' <= MaxBrightTime
    /\ UNCHANGED <<mapped, last_commit, commit_gap, volume_frames, actuatorVars,
                   beforeVars>>

TickBright == clock < MaxBrightTime /\ Tick

NextBright == SetDetector \/ FrameBright \/ Reset \/ TickBright

SpecBright == InitBright /\ [][NextBright]_vars

-----------------------------------------------------------------------------
(* The dispatcher: claims about detect_and_handle_gesture and GestureAction *)

\* the last operation was a frame that the handler processed
Processed == op = "frame" /\ detector = "ok"

\* both gates, evaluated on what the frame read: its label G is a discrete action
\* differing from the previous label, and the action's cooldown has elapsed
EdgeGate == result.gesture \in ActionLabels /\ result.gesture # obs.prev_gesture
CooldownGate ==
    obs.now - obs.prev_triggered[result.gesture] >= GESTURE_COOLDOWN

\* C1: on every frame the callback of the frame's label G runs if and only if G is
\* a discrete action that differs from the previous label and now - last_triggered(G)
\* >= cooldown(G); no other callback runs.
C1_CallbackIffBothGates ==
    op = "frame" =>
        /\ invoked \in {"none", result.gesture}
        /\ (invoked # "none") <=> (Processed /\ EdgeGate /\ CooldownGate)

\* a second firing of OK: both gates passed with a real timestamp to compare against
C1_Witness ==
    /\ Processed
    /\ invoked = "OK"
    /\ obs.prev_triggered["OK"] >= StartTime

\* C2: while a discrete label is held unchanged no callback runs, however long the
\* hold lasts; the previous-label record follows every processed frame, so only the
\* rising edge of a hold can fire and a further firing needs the label to change
\* and return (frames with no reset_state between them).
C2_OneFiringPerHold ==
    Processed =>
        /\ last_gesture = result.gesture
        /\ current_gesture = result.gesture
        /\ (result.gesture = obs.prev_gesture => invoked = "none")
        /\ (invoked # "none" => obs.prev_gesture # result.gesture)

\* OK fired on its rising edge and is still held after its cooldown has elapsed
C2_Witness ==
    /\ Processed
    /\ result.gesture = "OK"
    /\ obs.prev_gesture = "OK"
    /\ last_triggered["OK"] >= StartTime
    /\ obs.now - last_triggered["OK"] > GESTURE_COOLDOWN
    /\ invoked = "none"

\* C3: two firings of one action are at least cooldown apart: a rising edge of G
\* fires exactly when the time is at or after last_triggered(G) + cooldown, and the
\* timestamp it records is at least cooldown after the previous one.
C3_CooldownSeparation ==
    (Processed /\ EdgeGate) =>
        LET G == result.gesture
        IN  /\ (invoked = G) <=> (obs.now >= obs.prev_triggered[G] + GESTURE_COOLDOWN)
            /\ invoked = G =>
                  last_triggered[G] >= obs.prev_triggered[G] + GESTURE_COOLDOWN
            /\ invoked # G => last_triggered[G] = obs.prev_triggered[G]

\* OK fires again exactly one cooldown after its previous firing
C3_Witness ==
    /\ Processed
    /\ invoked = "OK"
    /\ obs.prev_triggered["OK"] >= StartTime
    /\ obs.now = obs.prev_triggered["OK"] + GESTURE_COOLDOWN

\* C4: in the scenario (cooldown 1.0 s, OK never fired) the action fires at t = 0
\* and action_taken is true, nothing fires at 0.5 s while the label stays OK,
\* nothing fires at 0.8 s when the label returns to OK, and the action fires at
\* 1.2 s after another drop.
C4_Scenario ==
    Processed =>
        /\ scn.stage \in {1, 6} =>
              /\ invoked = "OK"
              /\ ~obs.raised => (result.action_taken /\ result.discrete_action = "OK")
        /\ scn.stage \in {2, 4} =>
              /\ invoked = "none"
              /\ ~result.action_taken
        /\ scn.stage \in {3, 5} =>
              /\ invoked = "none"
              /\ result.gesture = "Unknown"

\* the scenario's last frame, at t = 1.2 s
C4_Witness ==
    /\ Processed
    /\ scn.stage = 6
    /\ result.action_taken
    /\ obs.now = scn.t0 + 12

\* C5: when the callback raises, trigger returns false (no action is reported) but
\* last_triggered already holds the trigger time and stays; the action is then
\* refused on every rising edge within the cooldown.
C5_FailedCallbackStartsCooldown ==
    Processed =>
        /\ obs.raised =>
              /\ invoked = result.gesture
              /\ ~result.action_taken
              /\ result.discrete_action = "none"
              /\ last_triggered[result.gesture] >= obs.now
              /\ last_triggered[result.gesture] <= clock
        /\ (EdgeGate /\ result.gesture \in failed /\ ~obs.raised
              /\ obs.now < obs.prev_triggered[result.gesture] + GESTURE_COOLDOWN)
           => (invoked = "none" /\ last_triggered = obs.prev_triggered)
        /\ \A g \in failed : last_triggered[g] >= StartTime

\* a rising edge of OK, whose latest callback run raised, refused inside the cooldown
C5_Witness ==
    /\ Processed
    /\ result.gesture = "OK"
    /\ obs.prev_gesture # "OK"
    /\ "OK" \in failed
    /\ invoked = "none"
    /\ obs.now < last_triggered["OK"] + GESTURE_COOLDOWN

\* C6 as claimed: reset_state clears every cooldown timestamp and both labels
C6_ResetClearsCooldowns ==
    op = "reset" =>
        /\ \A g \in ActionLabels : last_triggered[g] = 0
        /\ current_gesture = "No Hand"
        /\ last_gesture = "No Hand"

\* C6: reset_state sets current_gesture and last_gesture to the initial label and
\* leaves every cooldown timestamp as it was; an action that was cooling before the
\* reset is still refused on its next rising edge.
C6_ResetKeepsCooldowns ==
    /\ op = "reset" =>
          /\ current_gesture = "No Hand"
          /\ last_gesture = "No Hand"
          /\ last_triggered = obs.prev_triggered
    /\ (Processed /\ EdgeGate /\ obs.prev_gesture = "No Hand" /\ ~CooldownGate)
       => invoked = "none"

\* a reset while OK is cooling
C6_Witness ==
    /\ op = "reset"
    /\ last_triggered["OK"] >= StartTime
    /\ clock - last_triggered["OK"] < GESTURE_COOLDOWN

-----------------------------------------------------------------------------
(* The classifiers called on one snapshot *)

InitClassify ==
    /\ InitHandler
    /\ InitClassifyOut
    /\ InitAux
    /\ volume_available = TRUE
    /\ landmarks_list \in ClassifySnapshots
    /\ op = "init"

DetectGestureCall_consuming ==
    /\ landmarks_list # <<>>
    /\ labelPrev' = labelOut
    /\ labelOut' = enhanced_detect_gesture(landmarks_list)
    /\ landmarks_list' = <<>>
    /\ op' = "detect_gesture"
    /\ UNCHANGED <<fingersOut, fingersPrev, legacyOut>>
    /\ UNCHANGED handlerVars
    /\ UNCHANGED auxVars

\* self.fingers_up()
FingersUpCall ==
    /\ fingersPrev' = fingersOut
    /\ fingersOut' = fingers_up(landmarks_list)
    /\ op' = "fingers_up"
    /\ UNCHANGED <<landmarks_list, labelOut, labelPrev, legacyOut>>
    /\ UNCHANGED handlerVars
    /\ UNCHANGED auxVars

\* self.detector.detect_gesture(), the method patched in by gesture_handler.py
DetectGestureCall ==
    /\ labelPrev' = labelOut
    /\ labelOut' = enhanced_detect_gesture(landmarks_list)
    /\ op' = "detect_gesture"
    /\ UNCHANGED <<landmarks_list, fingersOut, fingersPrev, legacyOut>>
    /\ UNCHANGED handlerVars
    /\ UNCHANGED auxVars

\* detector.detect_gesture() where gesture_handler.py was never imported (main.py)
LegacyDetectCall ==
    /\ legacyOut = "none"
    /\ legacyOut' = detect_gesture(landmarks_list)
    /\ op' = "legacy_detect_gesture"
    /\ UNCHANGED <<landmarks_list, fingersOut, fingersPrev, labelOut, labelPrev>>
    /\ UNCHANGED handlerVars
    /\ UNCHANGED auxVars

NextClassify == FingersUpCall \/ DetectGestureCall \/ LegacyDetectCall

SpecClassify == InitClassify /\ [][NextClassify]_vars

-----------------------------------------------------------------------------
(* The classifiers: claims about fingers_up and detect_gesture *)

\* the rules of the precedence table, on a finger vector f and a snapshot l
RuleVolume(f) == f = <<1, 1, 0, 0, 0>>
RuleOk(f, l) ==
    /\ f = <<0, 1, 0, 0, 0>>
    /\ find_distance(l, 4, 8) < OK_DISTANCE_THRESHOLD * OK_DISTANCE_THRESHOLD
RulePeace(f) == f = <<0, 1, 1, 0, 0>>
RuleMute(f) == f = <<0, 0, 0, 0, 0>>
RulePrevious(f, l) ==
    /\ Y(LM(l, 4)) > Y(LM(l, 2))
    /\ f[2] + f[3] + f[4] + f[5] >= 3
RuleBrightness(f) == f = <<1, 1, 1, 1, 1>>
RuleUnmute(f, l) ==
    /\ f[1] + f[2] + f[3] + f[4] + f[5] >= 4
    /\ find_distance(l, 8, 12) > SpreadThreshold * SpreadThreshold
    /\ find_distance(l, 12, 16) > SpreadThreshold * SpreadThreshold

FirstMatch(f, l) ==
    CASE RuleVolume(f) -> "Volume Control"
      [] ~RuleVolume(f) /\ RuleOk(f, l) -> "OK"
      [] ~RuleVolume(f) /\ ~RuleOk(f, l) /\ RulePeace(f) -> "Peace"
      [] ~RuleVolume(f) /\ ~RuleOk(f, l) /\ ~RulePeace(f) /\ RuleMute(f) -> "Mute"
      [] ~RuleVolume(f) /\ ~RuleOk(f, l) /\ ~RulePeace(f) /\ ~RuleMute(f)
         /\ RulePrevious(f, l) -> "Previous"
      [] ~RuleVolume(f) /\ ~RuleOk(f, l) /\ ~RulePeace(f) /\ ~RuleMute(f)
         /\ ~RulePrevious(f, l) /\ RuleBrightness(f) -> "Brightness"
      [] ~RuleVolume(f) /\ ~RuleOk(f, l) /\ ~RulePeace(f) /\ ~RuleMute(f)
         /\ ~RulePrevious(f, l) /\ ~RuleBrightness(f) /\ RuleUnmute(f, l) -> "Unmute"
      [] OTHER -> "Unknown"

\* C7: for every 21-landmark snapshot the classifier returns the label of the first
\* matching rule in the order Volume Control, OK, Peace, Mute, Previous, Brightness,
\* Unmute, else Unknown; fingers [1,1,0,0,0] always give Volume Control and
\* [0,0,0,0,0] always give Mute.
C7_FirstMatchWins ==
    (labelOut # "none" /\ Len(landmarks_list) = NumLandmarks) =>
        LET f == fingers_up(landmarks_list)
        IN  /\ labelOut = FirstMatch(f, landmarks_list)
            /\ f = <<1, 1, 0, 0, 0>> => labelOut = "Volume Control"
            /\ f = <<0, 0, 0, 0, 0>> => labelOut = "Mute"

\* an open palm with the thumb tip below its base matches Previous and Brightness
\* (and Unmute): the earlier rule wins
C7_Witness ==
    /\ labelOut = "Previous"
    /\ Len(landmarks_list) = NumLandmarks
    /\ RuleBrightness(fingers_up(landmarks_list))
    /\ RuleUnmute(fingers_up(landmarks_list), landmarks_list)

\* C8: whatever the snapshot, each classifier returns one of the nine labels.
C8_LabelClosure ==
    /\ labelOut # "none" => labelOut \in GestureLabels
    /\ legacyOut # "none" => legacyOut \in GestureLabels

\* a closed fist, classified by both versions of detect_gesture
C8_Witness ==
    /\ labelOut = "Mute"
    /\ legacyOut = "Mute"
    /\ fingersOut = <<0, 0, 0, 0, 0>>

C12_FingerBits ==
    (fingersOut # NotCalled /\ Len(landmarks_list) = NumLandmarks) =>
        LET l == landmarks_list
            Bit(b) == IF b THEN 1 ELSE 0
        IN  /\ Len(fingersOut) = 5
            /\ fingersOut[1] = Bit(l[5][2] > l[4][2])
            /\ fingersOut[2] = Bit(l[9][3] < l[7][3])
            /\ fingersOut[3] = Bit(l[13][3] < l[11][3])
            /\ fingersOut[4] = Bit(l[17][3] < l[15][3])
            /\ fingersOut[5] = Bit(l[21][3] < l[19][3])
            /\ l[5][2] = l[4][2] => fingersOut[1] = 0
            /\ l[13][3] = l[11][3] => fingersOut[3] = 0

\* index and pinky up, the thumb tip level with landmark 3 and the middle tip level
\* with landmark 10
C12_Witness ==
    /\ fingersOut = <<0, 1, 0, 0, 1>>
    /\ Len(landmarks_list) = NumLandmarks
    /\ landmarks_list[5][2] = landmarks_list[4][2]
    /\ landmarks_list[13][3] = landmarks_list[11][3]
    /\ landmarks_list[17][3] > landmarks_list[15][3]

\* the index tip is above joint 6 and level with joint 7, the thumb tip is level
\* with joint 3 and right of joint 2: the bits follow joints 6 and 3
C12_WitnessJoint ==
    /\ fingersOut # NotCalled
    /\ Len(landmarks_list) = NumLandmarks
    /\ landmarks_list[9][3] < landmarks_list[7][3]
    /\ landmarks_list[9][3] = landmarks_list[8][3]
    /\ landmarks_list[5][2] = landmarks_list[4][2]
    /\ landmarks_list[5][2] > landmarks_list[3][2]
    /\ fingersOut[1] = 0
    /\ fingersOut[2] = 1

\* the squared distance between the thumb tip (4) and the index tip (8)
ThumbIndexSq ==
    LET l == landmarks_list
    IN  (l[9][2] - l[5][2]) * (l[9][2] - l[5][2]) + (l[9][3] - l[5][3]) * (l[9][3] - l[5][3])

\* C13: the classifier returns OK exactly when the finger vector is [0,1,0,0,0] and
\* the distance between the thumb tip and the index tip is strictly below the OK
\* threshold; at a distance equal to or above the threshold that vector is not OK.
C13_OkRule ==
    labelOut # "none" =>
        (labelOut = "OK" <=>
            /\ Len(landmarks_list) >= NumLandmarks
            /\ fingers_up(landmarks_list) = <<0, 1, 0, 0, 0>>
            /\ ThumbIndexSq < OK_DISTANCE_THRESHOLD * OK_DISTANCE_THRESHOLD)

\* the index alone is up, 40 px from the thumb tip
C13_Witness ==
    /\ labelOut = "OK"
    /\ Len(landmarks_list) = NumLandmarks
    /\ fingers_up(landmarks_list) = <<0, 1, 0, 0, 0>>
    /\ ThumbIndexSq = 40 * 40

\* the index alone is up, exactly the threshold away from the thumb tip
C13_WitnessAtThreshold ==
    /\ labelOut = "Unknown"
    /\ Len(landmarks_list) = NumLandmarks
    /\ fingers_up(landmarks_list) = <<0, 1, 0, 0, 0>>
    /\ ThumbIndexSq = OK_DISTANCE_THRESHOLD * OK_DISTANCE_THRESHOLD

\* C14: the classifier returns Previous exactly when the thumb tip's y is greater
\* than the y of the thumb base (landmark 2) and at least 3 of index, middle, ring
\* and pinky are up; a hand with all five fingers up and the thumb tip below its
\* base is Previous, not Brightness.
C14_PreviousRule ==
    labelOut # "none" =>
        LET l == landmarks_list
            f == fingers_up(l)
        IN  /\ labelOut = "Previous" <=>
                  /\ Len(l) >= NumLandmarks
                  /\ l[5][3] > l[3][3]
                  /\ f[2] + f[3] + f[4] + f[5] >= 3
            /\ (Len(l) >= NumLandmarks /\ f = <<1, 1, 1, 1, 1>> /\ l[5][3] > l[3][3])
                  => labelOut # "Brightness"

\* all five fingers up, the thumb tip below landmark 2 and above landmark 1
C14_Witness ==
    /\ labelOut = "Previous"
    /\ Len(landmarks_list) = NumLandmarks
    /\ fingers_up(landmarks_list) = <<1, 1, 1, 1, 1>>
    /\ landmarks_list[5][3] > landmarks_list[3][3]
    /\ landmarks_list[5][3] < landmarks_list[2][3]

\* C15: with all five fingers up the classifier returns Previous or Brightness and
\* never Unmute, whatever the spread; Unmute is returned only with exactly four
\* fingers up and the index-middle and middle-ring tip distances both above 50.
C15_UnmuteOnlyFourSpread ==
    (labelOut # "none" /\ Len(landmarks_list) >= NumLandmarks) =>
        LET l == landmarks_list
            f == fingers_up(l)
            Sq(a, b) == (l[b + 1][2] - l[a + 1][2]) * (l[b + 1][2] - l[a + 1][2])
                        + (l[b + 1][3] - l[a + 1][3]) * (l[b + 1][3] - l[a + 1][3])
        IN  /\ SumSeq(f) = 5 => labelOut \in {"Previous", "Brightness"}
            /\ labelOut = "Unmute" =>
                  /\ SumSeq(f) = 4
                  /\ Sq(8, 12) > SpreadThreshold * SpreadThreshold
                  /\ Sq(12, 16) > SpreadThreshold * SpreadThreshold

\* five fingers up and spread, the thumb not pointing down: the Unmute rule matches
\* this hand and Brightness is returned
C15_Witness ==
    /\ labelOut = "Brightness"
    /\ Len(landmarks_list) = NumLandmarks
    /\ fingers_up(landmarks_list) = <<1, 1, 1, 1, 1>>
    /\ detect_unmute_gesture(landmarks_list) = "Unmute"

\* four fingers up and spread
C15_WitnessUnmute ==
    /\ labelOut = "Unmute"
    /\ SumSeq(fingers_up(landmarks_list)) = 4

-----------------------------------------------------------------------------
(* The distance-to-percent mapping applied to a sequence of distances *)

\* distances in pixels: below, at and inside the range, at its upper end and beyond
Distances == {-10, 0, 29, 30, 31, 47, 115, 199, 200, 201, 500}

\* the distances in fixed point, with neighbours one unit beside the range's ends
FixedDistances == {d * Scale : d \in Distances}
                  \cup {VOLUME_MIN_DISTANCE * Scale + 1, VOLUME_MAX_DISTANCE * Scale - 1}

\* volume = np.interp(distance, [min_dist, max_dist], [0, 100]);
\* volume = max(0, min(100, volume))
MapDistance ==
    /\ \E d \in FixedDistances :
          mapped' = <<<<d, Interp(d)>>>> \o (IF mapped = <<>> THEN <<>> ELSE <<mapped[1]>>)
    /\ op' = "interp"
    /\ UNCHANGED <<landmarks_list>>
    /\ UNCHANGED <<last_commit, commit_gap, volume_frames, actuatorVars, running,
                   beforeVars>>
    /\ UNCHANGED handlerVars
    /\ UNCHANGED classifyVars

NextMapper == MapDistance

SpecMapper == Init /\ [][NextMapper]_vars

\* C16: over the range [30, 200] the mapping gives 0 at distance 30 and below,
\* 100 at distance 200 and above, the linear value in between, a result within
\* 0..100 always, and a result that does not decrease when the distance grows.
C16_ClampedInterpolation ==
    /\ \A i \in 1..Len(mapped) :
          LET d == mapped[i][1]
              v == mapped[i][2]
          IN  /\ v >= 0 /\ v <= 100 * Scale
              /\ d <= 30 * Scale => v = 0
              /\ d >= 200 * Scale => v = 100 * Scale
              /\ (d > 30 * Scale /\ d < 200 * Scale) =>
                    /\ v * 170 <= (d - 30 * Scale) * 100
                    /\ (v + 1) * 170 > (d - 30 * Scale) * 100
    /\ Len(mapped) = 2 =>
          (mapped[1][1] >= mapped[2][1] => mapped[1][2] >= mapped[2][2])

\* distance 500 mapped after distance -10
C16_Witness ==
    /\ Len(mapped) = 2
    /\ mapped[1] = <<500 * Scale, 100 * Scale>>
    /\ mapped[2] = <<(-10) * Scale, 0>>

\* distance 115 mapped after distance 30
C16_WitnessInside ==
    /\ Len(mapped) = 2
    /\ mapped[1] = <<115 * Scale, 50 * Scale>>
    /\ mapped[2] = <<30 * Scale, 0>>

-----------------------------------------------------------------------------
(* The volume mapper: claims about _handle_volume_control over a run of frames *)

\* C17 as claimed: the mapper calls set_volume only when at least the update
\* interval has elapsed since its previous set_volume call
C17_RateLimited ==
    (Processed /\ commit_gap # -1) => 2 * commit_gap >= VOLUME_UPDATE_INTERVAL

\* two Volume Control frames with the same clock reading, set_volume called on both
C17_Witness ==
    /\ Processed
    /\ result.gesture = "Volume Control"
    /\ obs.prev_gesture = "Volume Control"
    /\ volume_frames = 2
    /\ commit_gap = 0

\* C19: a frame whose label is not Volume Control leaves smooth_volume exactly as
\* it was, so the value left by the last Volume Control frame is held over No Hand
\* and Unknown frames; among the frames only a Volume Control frame changes it
\* (reset_state, which is not a frame, sets it to the actuator's level).
C19_SmoothVolumeHeld ==
    [][ /\ (op' = "frame" /\ result'.gesture # "Volume Control")
              => smooth_volume' = smooth_volume
        /\ smooth_volume' # smooth_volume
              => \/ op' = "frame" /\ result'.gesture = "Volume Control"
                 \/ op' = "reset"
      ]_vars

\* the gesture is released after a frame that moved smooth_volume from 50 to 65
C19_Witness ==
    /\ Processed
    /\ result.gesture \in {"No Hand", "Unknown"}
    /\ obs.prev_gesture = "Volume Control"
    /\ volume_frames = 1
    /\ smooth_volume = 65 * Scale
    /\ ~volume_control_active

-----------------------------------------------------------------------------
(* VolumeController driven directly *)

\* the levels asked for: below, at, inside and above 0..100
Requests == {-50, -1, 0, 1, 37, 50, 99, 100, 101, 250}

InitActuator ==
    /\ InitHandler
    /\ InitClassifyOut
    /\ InitAux
    /\ landmarks_list = <<>>
    /\ op = "init"
    /\ volume_available \in BOOLEAN

\* volume_controller.set_volume(volume_percent)
SetVolume ==
    \E volume_percent \in Requests, outcome \in Outcomes :
        LET r == set_volume_call(volume_percent, current_volume, volume_available, outcome)
        IN  /\ current_volume' = r[1]
            /\ set_result' = r[2]
            /\ volume_before' = current_volume
            /\ volume_requested' = volume_percent
            /\ op' = "set_volume"
            /\ UNCHANGED <<landmarks_list, detector, current_gesture, last_gesture,
                           gesture_start_time, last_triggered, smooth_volume,
                           last_volume_distance, last_brightness_distance,
                           volume_control_active, brightness_control_active,
                           brightness_controller, brightness_level, clock, result,
                           invoked, obs, failed, scn>>
            /\ UNCHANGED <<mapped, last_commit, commit_gap, volume_frames,
                           volume_available, running, beforeVars>>
            /\ UNCHANGED classifyVars

NextActuator == SetVolume

SpecActuator == InitActuator /\ [][NextActuator]_vars

\* volume_controller.get_volume()
get_volume == current_volume

\* C18 as claimed: when set_volume returns False, get_volume returns the level it
\* returned before the call
C18_FailureKeepsLevel ==
    set_result = "False" => get_volume = volume_before

\* set_volume(99) at level 50 returns False and get_volume returns 99
C18_Witness ==
    /\ set_result = "False"
    /\ volume_before = 50
    /\ volume_requested = 99
    /\ get_volume = 99

\* C20: after any sequence of set_volume calls the level get_volume returns is
\* within 0..100, and a call that returns True has stored its argument clamped to
\* 0..100.
C20_LevelWithinRange ==
    /\ get_volume >= 0
    /\ get_volume <= 100
    /\ set_result = "True" =>
          get_volume = (IF volume_requested < 0 THEN 0
                        ELSE IF volume_requested > 100 THEN 100
                        ELSE volume_requested)

\* set_volume(250) after set_volume(-50)
C20_Witness ==
    /\ set_result = "True"
    /\ volume_requested = 250
    /\ volume_before = 0
    /\ get_volume = 100

-----------------------------------------------------------------------------
(* The handler with a brightness controller: claims about routing and failures *)

\* C21 as claimed: every frame, whatever the snapshot and whether or not an
\* actuator call or a callback fails, returns a result with a label, and the frame
\* loop goes on to the next frame
C21_NothingAbortsFrame ==
    op = "frame" => (result.gesture \in GestureLabels /\ running)

\* a Brightness frame on which set_brightness raised: no result, the label record
\* half updated, the frame loop ended
C21_Witness ==
    /\ op = "frame"
    /\ result = Raised
    /\ ~running
    /\ current_gesture = "Brightness"
    /\ last_gesture # "Brightness"
    /\ ~brightness_control_active

\* the last frame ran _handle_volume_control or _handle_brightness_control
ContinuousRan ==
    \/ result.gesture = "Volume Control"
    \/ result.gesture = "Brightness" /\ brightness_controller

\* C22 as claimed: no frame both runs a continuous handler and fires a discrete
\* action, with and without a brightness controller
C22_ExclusiveRouting ==
    (Processed /\ ContinuousRan) => (invoked = "none" /\ result.discrete_action = "none")

\* a Brightness frame with a brightness controller: set_brightness(17) was called
\* and the Brightness action fired on the same frame
C22_Witness ==
    /\ Processed
    /\ result.gesture = "Brightness"
    /\ brightness_controller
    /\ brightness_control_active
    /\ brightness_level = 17
    /\ invoked = "Brightness"
    /\ result.discrete_action = "Brightness"
    /\ last_triggered["Brightness"] >= StartTime

\* C23: the last_triggered of an action changes only on a frame that triggers that
\* very action with both gates passed, every other step leaves it unchanged, and
\* an action whose gates pass fires whatever the other actions' timestamps and
\* failures are.
C23_TimestampOwnedByItsAction ==
    [][ \A g \in ActionLabels :
          LET gates == /\ g # last_gesture
                       /\ clock - last_triggered[g] >= GESTURE_COOLDOWN
              fired == op' = "frame" /\ invoked' = g
          IN  /\ last_triggered'[g] # last_triggered[g] =>
                    (fired /\ result'.gesture = g /\ gates)
              /\ fired => last_triggered'[g] > last_triggered[g]
              /\ (op' = "frame" /\ detector = "ok" /\ result'.gesture = g /\ gates)
                    => fired
      ]_vars

\* Brightness fires on its rising edge while OK, whose callback raised, is cooling
C23_Witness ==
    /\ Processed
    /\ invoked = "Brightness"
    /\ "OK" \in failed
    /\ last_triggered["OK"] >= StartTime
    /\ obs.now - last_triggered["OK"] < GESTURE_COOLDOWN
    /\ last_triggered["Brightness"] >= obs.now
    /\ obs.prev_triggered["OK"] = last_triggered["OK"]

\* C24 as claimed: the cooldown check, the recorded last_triggered, the gesture
\* start time and the reported duration of one frame all use one time value
C24_TimeSampledOnce ==
    Processed =>
        /\ invoked # "none" => last_triggered[invoked] = obs.now
        /\ result.gesture # obs.prev_gesture => gesture_start_time = obs.now
        /\ result.gesture_duration = obs.now - gesture_start_time

\* OK fires on a frame during which the clock advances: the gate was evaluated at
\* obs.now and last_triggered holds a later reading
C24_Witness ==
    /\ Processed
    /\ invoked = "OK"
    /\ obs.now - obs.prev_triggered["OK"] >= GESTURE_COOLDOWN
    /\ last_triggered["OK"] = obs.now + 1
    /\ gesture_start_time = obs.now + 1
    /\ result.gesture_duration = 0

-----------------------------------------------------------------------------
(* The volume mapper: claims about the jitter filter, the smoothed value and reset *)

\* the last frame ran _handle_volume_control
VolumeFrame == Processed /\ result.gesture = "Volume Control"

\* the raw thumb-index distance of the last frame's snapshot, in fixed point
RawDistance == Length(ThumbIndexSq)

\* C25 as claimed: on the first Volume Control frame the smoothed distance is the
\* raw distance, on every later one it is 0.7 times the previous smoothed distance
\* plus 0.3 times the raw distance, and the percent mapping is applied to the
\* smoothed distance
C25_JitterFilter ==
    VolumeFrame =>
        /\ volume_frames = 1 => last_volume_distance = RawDistance
        /\ volume_frames > 1 =>
              last_volume_distance = (prev_distance * 7 + RawDistance * 3) \div 10
        /\ smooth_volume = (prev_smooth * 7 + Interp(last_volume_distance) * 3) \div 10

\* the second Volume Control frame, 200 px, after a first one of 0 px: the smoothed
\* distance is 200, not 60
C25_Witness ==
    /\ VolumeFrame
    /\ volume_frames = 2
    /\ prev_distance = 0
    /\ RawDistance = 200 * Scale
    /\ last_volume_distance = 200 * Scale

-----------------------------------------------------------------------------
(* The dispatcher: a rising edge rejected by the cooldown *)

\* C26: a rising edge that the cooldown rejects is consumed: the frame runs no
\* callback and records no timestamp, yet the previous-label record becomes G; and
\* a frame that finds the previous-label record already G runs no callback even
\* when G's cooldown has elapsed by then, so G fires again only on a frame whose
\* previous label differs from G.
C26_RejectedEdgeConsumed ==
    (Processed /\ result.gesture \in ActionLabels) =>
        LET G == result.gesture
        IN  /\ (EdgeGate /\ ~CooldownGate) =>
                  /\ invoked = "none"
                  /\ last_triggered = obs.prev_triggered
                  /\ last_gesture = G
            /\ (~EdgeGate /\ CooldownGate) =>
                  /\ invoked = "none"
                  /\ last_triggered = obs.prev_triggered
            /\ invoked = G => (EdgeGate /\ CooldownGate)

\* OK is still held, its cooldown has elapsed, and nothing fires: the hold began
\* while OK was cooling after a real firing, later than any reading of the frame
\* that fired, so its rising edge was the rejected one
C26_Witness ==
    /\ Processed
    /\ result.gesture = "OK"
    /\ obs.prev_gesture = "OK"
    /\ last_triggered["OK"] >= StartTime
    /\ gesture_start_time > last_triggered["OK"] + MaxDrift
    /\ gesture_start_time < last_triggered["OK"] + GESTURE_COOLDOWN
    /\ obs.now - last_triggered["OK"] >= GESTURE_COOLDOWN
    /\ invoked = "none"

\* C27: the actuator's stored level changes only in a step that is a processed
\* frame labelled Volume Control: frames with any other label, whether or not a
\* callback fires in them (Mute and Unmute included), frames without a detector,
\* reset_state and the passing of time leave current_volume as it was.
C27_LevelChangesOnlyOnVolumeFrames ==
    [][current_volume' # current_volume =>
          /\ op' = "frame"
          /\ detector = "ok"
          /\ result'.gesture = "Volume Control"]_vars

\* the Mute action has fired on a level that an earlier Volume Control frame had
\* set, and the level is still that one
C27_Witness ==
    /\ Processed
    /\ invoked = "Mute"
    /\ result.action_taken
    /\ volume_frames >= 1
    /\ prev_volume # 50
    /\ current_volume = prev_volume

-----------------------------------------------------------------------------
(* The continuous-control flags *)

\* C28 as claimed: after every processed frame volume_control_active is true only
\* if the frame's label was Volume Control and brightness_control_active is true
\* only if the frame's label was Brightness, with or without a brightness
\* controller
C28_FlagsFollowLabel ==
    (Processed /\ result.gesture # "raised") =>
        /\ volume_control_active => result.gesture = "Volume Control"
        /\ brightness_control_active => result.gesture = "Brightness"

\* a frame labelled Brightness has returned and volume_control_active, set by the
\* Volume Control frame before it, is still true
C28_Witness ==
    /\ Processed
    /\ result.gesture = "Brightness"
    /\ brightness_controller
    /\ obs.prev_gesture = "Volume Control"
    /\ volume_control_active
    /\ brightness_control_active

\* C29: with the actuator's initial level in 0..100 and the smoothing factor in
\* 0..1, smooth_volume stays within 0..100 after any sequence of frames and resets,
\* and the level a Volume Control frame passes to set_volume, the integer part of
\* smooth_volume, is an integer in 0..100, which the actuator stores as it is.
C29_SmoothVolumeInRange ==
    /\ 0 <= SmoothNum /\ SmoothNum <= SmoothDen
    /\ 0 <= smooth_volume /\ smooth_volume <= 100 * Scale
    /\ VolumeFrame =>
          /\ IntOf(smooth_volume) \in 0..100
          /\ current_volume = IntOf(smooth_volume)

\* the second Volume Control frame in a row whose mapped percentage is 100, the
\* upper end of the range: smooth_volume has moved up towards it and the level
\* stored is its integer part
C29_Witness ==
    /\ VolumeFrame
    /\ volume_frames = 2
    /\ Interp(last_volume_distance) = 100 * Scale
    /\ Interp(prev_distance) = 100 * Scale
    /\ smooth_volume > prev_smooth
    /\ prev_smooth > 50 * Scale
    /\ current_volume = IntOf(smooth_volume)

\* what reset_state does to the volume mapper and the flags, as a step
ResetEffect ==
    op' = "reset" =>
        /\ smooth_volume' = current_volume * Scale
        /\ ~volume_control_active'
        /\ ~brightness_control_active'
        /\ last_volume_distance' = last_volume_distance
        /\ current_volume' = current_volume

\* the step is a Volume Control frame processed directly after a reset_state
VolumeFrameAfterReset ==
    /\ op = "reset"
    /\ op' = "frame"
    /\ detector = "ok"
    /\ result'.gesture = "Volume Control"

\* C30 as claimed: reset_state sets smooth_volume to the actuator's level, clears
\* both flags and leaves last_volume_distance, so the first Volume Control frame
\* after a reset blends its raw distance with the pre-reset smoothed distance
\* instead of seeding the filter
C30_ResetThenBlend ==
    [][/\ ResetEffect
       /\ VolumeFrameAfterReset =>
             last_volume_distance' =
                 (last_volume_distance * 7 + RawDistance' * 3) \div 10]_vars

\* C30: reset_state sets smooth_volume to the actuator's level, clears both flags
\* and leaves last_volume_distance; the first Volume Control frame after a reset
\* blends its raw distance with the pre-reset smoothed distance when that distance
\* is not 0, and seeds the filter with its raw distance when it is 0 (no Volume
\* Control frame before the reset, or a smoothed distance of exactly 0).
C30_ResetKeepsFilterState ==
    [][/\ ResetEffect
       /\ VolumeFrameAfterReset =>
             last_volume_distance' =
                 IF last_volume_distance = 0 THEN RawDistance'
                 ELSE (last_volume_distance * 7 + RawDistance' * 3) \div 10]_vars

\* a Volume Control frame of 0 px directly after a reset that followed one of
\* 200 px: the smoothed distance is 140 px, blended with the pre-reset 200 px
C30_Witness ==
    /\ VolumeFrame
    /\ prev_op = "reset"
    /\ prev_distance = 200 * Scale
    /\ prev_smooth = prev_volume * Scale
    /\ RawDistance = 0
    /\ last_volume_distance = 140 * Scale

====
